---- MODULE Spec2Model ----
(* Snakes and Ladders (src/src/main.rs): the game state, the seven        *)
(* commands of GameState::apply and the turn-resolution engine            *)
(* (player_turn_wins / move_wins) as a state machine.  One action per     *)
(* command; a `turns` command is one action that runs the nested loops of *)
(* apply and leaves, in the history variable log, one record per          *)
(* player-turn it started.                                                *)
EXTENDS Integers, Sequences, FiniteSets, TLC

(* ---------------------------------------------------------------- *)
(* Program constants                                                 *)
(* ---------------------------------------------------------------- *)
MAX_CELLS == 999
MAX_PLAYERS == 26

(* ---------------------------------------------------------------- *)
(* Bounds of the model                                               *)
(* ---------------------------------------------------------------- *)
NPlayers == 3       \* `players` commands have 0..NPlayers players
MaxDie == 2         \* die faces are 1..MaxDie
MaxDiceLen == 2     \* `dice` commands have 0..MaxDiceLen faces
MaxQty == 2         \* `turns` commands have a count in 0..MaxQty
MaxTurn == 4        \* no `turns` command is issued that could roll more
MaxFeatures == 2    \* at most this many ladder/snake/powerup cells
MaxSpan == 1        \* a ladder or snake spans at most this many cells

VARIABLES
    columns,    \* BoardConfig.columns
    rows,       \* BoardConfig.rows
    cells,      \* BoardConfig.cells, cells[i] is the property of cell i
    players,    \* GameState.players, players[i+1] is player index i
    dice,       \* GameState.dice
    turn,       \* GameState.turn
    fault,      \* "none", or how the process ended: "panic" / "hang"
    cmd,        \* history: the keyword of the command applied last ("start"
                \* before the first) and its number: the count of a
                \* `turns`, the n of a `players`, the columns * rows of
                \* a `board`, 0 otherwise
    log,        \* history: the player-turns started by the last command
    rolled      \* history: the player-turns started since the program began

vars == <<columns, rows, cells, players, dice, turn, fault, cmd, log, rolled>>

(* ---------------------------------------------------------------- *)
(* Values                                                            *)
(* ---------------------------------------------------------------- *)
NoPower == "None"
Escalator == "Escalator"
Antivenom == "Antivenom"
Double == "Double"
PowerType == {Escalator, Antivenom, Double}

\* enum CellProperty; the unused fields of a variant are 0 / NoPower
Plain == [kind |-> "Plain", end |-> 0, pt |-> NoPower]
Winning == [kind |-> "Winning", end |-> 0, pt |-> NoPower]
SnakeStart(e) == [kind |-> "SnakeStart", end |-> e, pt |-> NoPower]
LadderStart(e) == [kind |-> "LadderStart", end |-> e, pt |-> NoPower]
PowerUp(p) == [kind |-> "PowerUp", end |-> 0, pt |-> p]

\* struct PlayerState
PlayerState(l, p) == [loc |-> l, powerup |-> p]

Letters ==
    << "A", "B", "C", "D", "E", "F", "G", "H", "I", "J", "K", "L", "M",
       "N", "O", "P", "Q", "R", "S", "T", "U", "V", "W", "X", "Y", "Z" >>

\* player index 0 is A, 1 is B, ...
player_name(pix) == Letters[pix + 1]

None == "-"

(* ---------------------------------------------------------------- *)
(* PlayerState methods                                               *)
(* ---------------------------------------------------------------- *)
\* go that leaves the player where it is
go_nowhere(player, loc) == player

go(player, loc) == [player EXCEPT !.loc = loc]

set_powerup(player, pt) == [player EXCEPT !.powerup = pt]

\* use_double that doubles the roll but keeps the powerup
use_double_kept(player, die) ==
    IF player.powerup = Double
    THEN [player |-> player, delta |-> die * 2]
    ELSE [player |-> player, delta |-> die]

\* returns the player after the call and the delta to move by
use_double(player, die) ==
    IF player.powerup = Double
    THEN [player |-> [player EXCEPT !.powerup = NoPower], delta |-> die * 2]
    ELSE [player |-> player, delta |-> die]

\* use_escalator that climbs the ladder once
use_escalator_single(player, there) ==
    [player EXCEPT !.loc = there, !.powerup = NoPower]

\* there >= player.loc for every ladder the commands of this model declare,
\* so the unsigned subtraction does not wrap
use_escalator(player, there) ==
    [player EXCEPT !.loc = player.loc + 2 * (there - player.loc),
                   !.powerup = NoPower]

\* use_antivenom that leaves the powerup with the player
use_antivenom_kept(player) == player

use_antivenom(player) == [player EXCEPT !.powerup = NoPower]

(* ---------------------------------------------------------------- *)
(* BoardConfig                                                       *)
(* ---------------------------------------------------------------- *)
size(c, r) == c * r

\* the landing-cell rule: the player after the move, whether it wins, and
\* whether indexing the cell table panicked
\* move_wins with the rule of the end cell applied after a slide or a climb
move_wins_reapplied(cs, player, delta) ==
    LET cell_qty == Len(cs)
        moved == [player EXCEPT !.loc = player.loc + delta]
        arrive(p) == IF cs[p.loc].kind = "PowerUp"
                     THEN set_powerup(p, cs[p.loc].pt)
                     ELSE IF cs[p.loc].kind \in {"SnakeStart", "LadderStart"}
                          THEN go(p, cs[p.loc].end)
                          ELSE p
    IN  IF moved.loc < 1 \/ moved.loc > cell_qty
        THEN [player |-> moved, win |-> FALSE, panic |-> TRUE]
        ELSE LET cell == cs[moved.loc]
             IN CASE cell.kind = "Plain" ->
                      [player |-> moved, win |-> FALSE, panic |-> FALSE]
                  [] cell.kind = "Winning" ->
                      [player |-> moved, win |-> TRUE, panic |-> FALSE]
                  [] cell.kind = "SnakeStart" /\ moved.powerup = Antivenom ->
                      [player |-> use_antivenom(moved), win |-> FALSE,
                       panic |-> FALSE]
                  [] cell.kind = "SnakeStart" /\ moved.powerup # Antivenom ->
                      [player |-> arrive(go(moved, cell.end)), win |-> FALSE,
                       panic |-> FALSE]
                  [] cell.kind = "LadderStart" /\ moved.powerup = Escalator ->
                      LET up == use_escalator(moved, cell.end)
                      IN  IF up.loc >= cell_qty
                          THEN [player |-> go(up, cell_qty), win |-> TRUE,
                                panic |-> FALSE]
                          ELSE [player |-> up, win |-> FALSE, panic |-> FALSE]
                  [] cell.kind = "LadderStart" /\ moved.powerup # Escalator ->
                      [player |-> arrive(go(moved, cell.end)), win |-> FALSE,
                       panic |-> FALSE]
                  [] cell.kind = "PowerUp" ->
                      [player |-> set_powerup(moved, cell.pt), win |-> FALSE,
                       panic |-> FALSE]

move_wins(cs, player, delta) ==
    LET cell_qty == Len(cs)
        moved == [player EXCEPT !.loc = player.loc + delta]
    IN  IF moved.loc < 1 \/ moved.loc > cell_qty
        THEN [player |-> moved, win |-> FALSE, panic |-> TRUE]
        ELSE LET cell == cs[moved.loc]
             IN CASE cell.kind = "Plain" ->
                      [player |-> moved, win |-> FALSE, panic |-> FALSE]
                  [] cell.kind = "Winning" ->
                      [player |-> moved, win |-> TRUE, panic |-> FALSE]
                  [] cell.kind = "SnakeStart" /\ moved.powerup = Antivenom ->
                      [player |-> use_antivenom(moved), win |-> FALSE,
                       panic |-> FALSE]
                  [] cell.kind = "SnakeStart" /\ moved.powerup # Antivenom ->
                      [player |-> go(moved, cell.end), win |-> FALSE,
                       panic |-> FALSE]
                  [] cell.kind = "LadderStart" /\ moved.powerup = Escalator ->
                      LET up == use_escalator(moved, cell.end)
                      IN  IF up.loc >= cell_qty
                          THEN [player |-> go(up, cell_qty), win |-> TRUE,
                                panic |-> FALSE]
                          ELSE [player |-> up, win |-> FALSE, panic |-> FALSE]
                  [] cell.kind = "LadderStart" /\ moved.powerup # Escalator ->
                      [player |-> go(moved, cell.end), win |-> FALSE,
                       panic |-> FALSE]
                  [] cell.kind = "PowerUp" ->
                      [player |-> set_powerup(moved, cell.pt), win |-> FALSE,
                       panic |-> FALSE]

(* ---------------------------------------------------------------- *)
(* GameState                                                         *)
(* ---------------------------------------------------------------- *)
\* Iterator::find over the 0-based player indices in S: the first, or -1
FirstIx(S) ==
    IF S = {} THEN -1 ELSE CHOOSE i \in S : \A j \in S : i <= j

winner_ix(ps, c, r) ==
    FirstIx({ix \in 0..(Len(ps) - 1) : ps[ix + 1].loc >= size(c, r)})

winner(ps, c, r) ==
    LET w == winner_ix(ps, c, r)
    IN  IF w = -1 THEN None ELSE player_name(w)

(* ---------------------------------------------------------------- *)
(* GameState::print                                                  *)
(* ---------------------------------------------------------------- *)
\* PowerType::label
power_label(pt) ==
    CASE pt = Escalator -> "e"
      [] pt = Antivenom -> "a"
      [] pt = Double -> "d"

\* CellProperty::label
label(cp) ==
    CASE cp.kind = "Plain" -> "  "
      [] cp.kind = "SnakeStart" -> " S"
      [] cp.kind = "LadderStart" -> " L"
      [] cp.kind = "PowerUp" -> power_label(cp.pt) \o " "
      [] cp.kind = "Winning" -> "  "

\* BoardConfig::back_and_forth
back_and_forth(c, row, column) ==
    (row - 1) * c + (IF row % 2 = 1 THEN column ELSE c - column + 1)

\* str::repeat
RECURSIVE repeat(_, _)
repeat(str, n) == IF n = 0 THEN "" ELSE str \o repeat(str, n - 1)

\* BoardConfig::between_rows
between_rows(c) == repeat("+---", c) \o "+"

\* BoardConfig::between_columns
between_columns == "|"

\* BoardConfig::cell_first_line: format!("{:>3}", ix)
cell_first_line(ix) ==
    repeat(" ", IF ix < 10 THEN 2 ELSE IF ix < 100 THEN 1 ELSE 0)
        \o ToString(ix)

\* GameState::cell_second_line
cell_second_line(ps, cs, ix) ==
    LET look == FirstIx({which \in 0..(Len(ps) - 1) : ps[which + 1].loc = ix})
    IN  (IF look = -1 THEN " " ELSE player_name(look)) \o label(cs[ix])

\* the first line of a row of print, built column by column
RECURSIVE first_line(_, _, _)
first_line(c, row, column) ==
    IF column > c THEN between_columns
    ELSE between_columns \o cell_first_line(back_and_forth(c, row, column))
             \o first_line(c, row, column + 1)

\* the second line of a row of print, built column by column
RECURSIVE second_line(_, _, _, _, _)
second_line(ps, cs, c, row, column) ==
    IF column > c THEN between_columns
    ELSE between_columns
             \o cell_second_line(ps, cs, back_and_forth(c, row, column))
             \o second_line(ps, cs, c, row, column + 1)

\* what the loop over the rows of print pushes on rev_out from row on
RECURSIVE rows_out(_, _, _, _, _)
rows_out(ps, cs, c, r, row) ==
    IF row > r THEN <<>>
    ELSE <<between_rows(c), second_line(ps, cs, c, row, 1),
           first_line(c, row, 1)>> \o rows_out(ps, cs, c, r, row + 1)

\* Vec::reverse
reverse(v) == [i \in 1..Len(v) |-> v[Len(v) + 1 - i]]

\* rev_out of print before it is reversed
rev_out(ps, cs, c, r) ==
    (IF winner(ps, c, r) = None THEN <<>>
     ELSE <<"Player " \o winner(ps, c, r) \o " won">>)
        \o rows_out(ps, cs, c, r, 1) \o <<between_rows(c)>>

\* print that does not reverse rev_out
print_unreversed(ps, cs, c, r) == rev_out(ps, cs, c, r)

\* GameState::print: the lines it joins with "\n"
print(ps, cs, c, r) == reverse(rev_out(ps, cs, c, r))

\* roll_dice indexing the sequence from its second face
roll_dice_shifted(ds, t) == [die |-> ds[((t + 1) % Len(ds)) + 1], turn |-> t + 1]

\* the die rolled and the turn counter after the roll; the caller has
\* checked that dice is not empty
roll_dice(ds, t) == [die |-> ds[(t % Len(ds)) + 1], turn |-> t + 1]

\* the loop of player_turn_wins.  steps records every landing of the chain:
\* who moved, the cell moved to (at), the mover before and after the
\* landing-cell rule, the result and the players after it.  seen holds the
\* loop states (players, current_player) met after a bump; the loop is
\* deterministic, so meeting one again means it never ends
RECURSIVE bump_loop(_, _, _, _, _, _)

\* the rest of one iteration, mw being what move_wins made of the mover
bump_landed(cs, ps, current_player, delta, seen, steps, mw) ==
    LET ps1 == [ps EXCEPT ![current_player + 1] = mw.player]
        steps1 == Append(steps,
                         [who |-> current_player,
                          at |-> ps[current_player + 1].loc + delta,
                          before |-> ps[current_player + 1],
                          after |-> mw.player, win |-> mw.win, ps |-> ps1])
    IN  IF mw.panic
        THEN [players |-> ps1, win |-> FALSE, fault |-> "panic",
              steps |-> steps1]
        ELSE IF mw.win
        THEN [players |-> ps1, win |-> TRUE, fault |-> "none",
              steps |-> steps1]
        ELSE LET land_loc == mw.player.loc
                 which == FirstIx({ix \in 0..(Len(ps1) - 1) :
                                     /\ ps1[ix + 1].loc = land_loc
                                     /\ ix # current_player})
             IN  IF which = -1
                 THEN [players |-> ps1, win |-> FALSE, fault |-> "none",
                       steps |-> steps1]
                 ELSE IF <<ps1, which>> \in seen
                 THEN [players |-> ps1, win |-> FALSE, fault |-> "hang",
                       steps |-> steps1]
                 ELSE bump_loop(cs, ps1, which, 1,
                                seen \cup {<<ps1, which>>}, steps1)

\* bump_loop moving the occupant of a contested cell by two cells
bump_loop_two(cs, ps, current_player, delta, seen, steps) ==
    bump_landed(cs, ps, current_player, delta, seen, steps,
                move_wins(cs, ps[current_player + 1],
                          IF steps = <<>> THEN delta ELSE 2))

bump_loop(cs, ps, current_player, delta, seen, steps) ==
    bump_landed(cs, ps, current_player, delta, seen, steps,
                move_wins(cs, ps[current_player + 1], delta))

\* the record of one player-turn in the log
Entry(ps, t, who, rd, ud, after, w, f, st) ==
    [who |-> who, die |-> rd.die, delta |-> ud.delta, turn0 |-> t,
     before |-> ps, after |-> after, win |-> w, fault |-> f, steps |-> st]

\* the end of player_turn_wins, bl being what the loop returned
turn_moved(ps, t, who, rd, ud, bl) ==
    [players |-> bl.players, turn |-> rd.turn, win |-> bl.win,
     fault |-> bl.fault,
     entry |-> <<Entry(ps, t, who, rd, ud, bl.players, bl.win, bl.fault,
                       bl.steps)>>]

\* player_turn_wins without the check of the roll against size()
player_turn_wins_unchecked(cs, c, r, ps, ds, t, who) ==
    IF Len(ds) = 0
    THEN [players |-> ps, turn |-> t, win |-> FALSE, fault |-> "panic",
          entry |-> <<>>]
    ELSE turn_moved(ps, t, who, roll_dice(ds, t),
                    use_double(ps[who + 1], roll_dice(ds, t).die),
                    bump_loop(cs,
                              [ps EXCEPT ![who + 1] =
                                  use_double(@, roll_dice(ds, t).die).player],
                              who,
                              use_double(ps[who + 1],
                                         roll_dice(ds, t).die).delta,
                              {}, <<>>))

\* one player-turn: the game state after it, its result, and its record
player_turn_wins(cs, c, r, ps, ds, t, who) ==
    IF Len(ds) = 0
    THEN [players |-> ps, turn |-> t, win |-> FALSE, fault |-> "panic",
          entry |-> <<>>]
    ELSE
    LET rd == roll_dice(ds, t)
        ud == use_double(ps[who + 1], rd.die)
        start_loc == ud.player.loc
        ps1 == [ps EXCEPT ![who + 1] = ud.player]
    IN  IF start_loc + ud.delta > size(c, r)
        THEN [players |-> ps1, turn |-> rd.turn, win |-> FALSE,
              fault |-> "none",
              entry |-> <<Entry(ps, t, who, rd, ud, ps1, FALSE, "none",
                                <<>>)>>]
        ELSE turn_moved(ps, t, who, rd, ud,
                        bump_loop(cs, ps1, who, ud.delta, {}, <<>>))

\* the nested loops of the Turns arm of apply, from repetition round and
\* player which_player on; st is [players, turn, fault, log]
RECURSIVE turns_loop(_, _, _, _, _, _, _, _)

\* the body of the inner loop, pt being what player_turn_wins returned
turns_played(cs, c, r, ds, st, qty, round, which_player, pt) ==
    LET st1 == [players |-> pt.players, turn |-> pt.turn,
                fault |-> pt.fault, log |-> st.log \o pt.entry]
    IN  IF pt.fault # "none" \/ pt.win THEN st1
        ELSE turns_loop(cs, c, r, ds, st1, qty, round, which_player + 1)

\* turns_loop making one repetition too many
turns_loop_extra(cs, c, r, ds, st, qty, round, which_player) ==
    IF round > qty THEN st
    ELSE IF which_player >= Len(st.players)
    THEN turns_loop(cs, c, r, ds, st, qty, round + 1, 0)
    ELSE turns_played(cs, c, r, ds, st, qty, round, which_player,
                      player_turn_wins(cs, c, r, st.players, ds, st.turn,
                                       which_player))

turns_loop(cs, c, r, ds, st, qty, round, which_player) ==
    IF round >= qty THEN st
    ELSE IF which_player >= Len(st.players)
    THEN turns_loop(cs, c, r, ds, st, qty, round + 1, 0)
    ELSE turns_played(cs, c, r, ds, st, qty, round, which_player,
                      player_turn_wins(cs, c, r, st.players, ds, st.turn,
                                       which_player))

(* ---------------------------------------------------------------- *)
(* Commands                                                          *)
(* ---------------------------------------------------------------- *)
Features(cs) == {i \in 1..Len(cs) : cs[i].kind \notin {"Plain", "Winning"}}

\* BoardConfig::set_cell_prop on a cell table: the table after it, or a
\* panic when ix is not a cell
set_cell_prop(cs, ix, cp) ==
    IF ix < 1 \/ ix > Len(cs)
    THEN [cells |-> cs, panic |-> TRUE]
    ELSE [cells |-> [cs EXCEPT ![ix] = cp], panic |-> FALSE]

Running == fault = "none"

\* board <c> <r>
Board(c, r) ==
    /\ Running
    /\ cmd' = [type |-> "board", qty |-> c * r]
    /\ log' = <<>>
    /\ rolled' = rolled
    /\ IF c * r > MAX_CELLS
       THEN /\ fault' = "panic"
            /\ UNCHANGED <<columns, rows, cells>>
       ELSE /\ columns' = c
            /\ rows' = r
            /\ IF c * r = 0
               THEN /\ cells' = <<>>
                    /\ fault' = "panic"
               ELSE /\ cells' = [i \in 1..(c * r) |->
                                    IF i = c * r THEN Winning ELSE Plain]
                    /\ fault' = fault
    /\ UNCHANGED <<players, dice, turn>>

\* set_player_count that keeps the players already there (Vec::resize)
set_player_count_resized(ps, n) ==
    [i \in 1..n |-> IF i <= Len(ps) THEN ps[i] ELSE PlayerState(1, NoPower)]

\* GameState::set_player_count past its assert: the players of self after it
set_player_count(ps, n) == [i \in 1..n |-> PlayerState(1, NoPower)]

\* players <n> without the assert of set_player_count
Players_uncapped(n) ==
    /\ Running
    /\ cmd' = [type |-> "players", qty |-> n]
    /\ log' = <<>>
    /\ rolled' = rolled
    /\ players' = set_player_count(players, n)
    /\ UNCHANGED <<columns, rows, cells, dice, turn, fault>>

\* players <n>
Players(n) ==
    /\ Running
    /\ cmd' = [type |-> "players", qty |-> n]
    /\ log' = <<>>
    /\ rolled' = rolled
    /\ IF n > MAX_PLAYERS
       THEN /\ fault' = "panic"
            /\ UNCHANGED players
       ELSE /\ players' = set_player_count(players, n)
            /\ fault' = fault
    /\ UNCHANGED <<columns, rows, cells, dice, turn>>

\* dice <d1> <d2> ... that starts the dice sequence over
Dice_rewinds(ds) ==
    /\ Running
    /\ cmd' = [type |-> "dice", qty |-> 0]
    /\ log' = <<>>
    /\ rolled' = rolled
    /\ dice' = ds
    /\ turn' = 0
    /\ UNCHANGED <<columns, rows, cells, players, fault>>

\* dice <d1> <d2> ...
Dice(ds) ==
    /\ Running
    /\ cmd' = [type |-> "dice", qty |-> 0]
    /\ log' = <<>>
    /\ rolled' = rolled
    /\ dice' = ds
    /\ UNCHANGED <<columns, rows, cells, players, turn, fault>>

SetCell(type, ix, cp) ==
    LET res == set_cell_prop(cells, ix, cp)
    IN  /\ Running
        /\ cmd' = [type |-> type, qty |-> 0]
        /\ log' = <<>>
        /\ rolled' = rolled
        /\ cells' = res.cells
        /\ fault' = IF res.panic THEN "panic" ELSE fault
        /\ UNCHANGED <<columns, rows, players, dice, turn>>

\* ladder <s> <e>
Ladder(s, e) == SetCell("ladder", s, LadderStart(e))

\* snake <s> <e>
Snake(s, e) == SetCell("snake", s, SnakeStart(e))

RECURSIVE set_cells(_, _, _)
set_cells(cs, ixs, cp) ==
    IF ixs = <<>> THEN [cells |-> cs, panic |-> FALSE]
    ELSE LET res == set_cell_prop(cs, Head(ixs), cp)
         IN  IF res.panic THEN res ELSE set_cells(res.cells, Tail(ixs), cp)

\* powerup <kind> <c1> <c2> ...
PowerUps(pt, ixs) ==
    LET res == set_cells(cells, ixs, PowerUp(pt))
    IN  /\ Running
        /\ cmd' = [type |-> "powerup", qty |-> 0]
        /\ log' = <<>>
        /\ rolled' = rolled
        /\ cells' = res.cells
        /\ fault' = IF res.panic THEN "panic" ELSE fault
        /\ UNCHANGED <<columns, rows, players, dice, turn>>

\* the state after a `turns` command whose loops ended in st
TurnsDone(qty, st) ==
    /\ cmd' = [type |-> "turns", qty |-> qty]
    /\ players' = st.players
    /\ turn' = st.turn
    /\ fault' = st.fault
    /\ log' = st.log
    /\ rolled' = rolled + Len(st.log)
    /\ UNCHANGED <<columns, rows, cells, dice>>

\* turns <qty>
Turns(qty) ==
    /\ Running
    /\ TurnsDone(qty, turns_loop(cells, columns, rows, dice,
                                 [players |-> players, turn |-> turn,
                                  fault |-> "none", log |-> <<>>], qty, 0, 0))

(* ---------------------------------------------------------------- *)
(* Specification                                                     *)
(* ---------------------------------------------------------------- *)
\* GameState::default()
Init ==
    /\ columns = 0
    /\ rows = 0
    /\ cells = <<>>
    /\ players = <<>>
    /\ dice = <<>>
    /\ turn = 0
    /\ fault = "none"
    /\ cmd = [type |-> "start", qty |-> 0]
    /\ log = <<>>
    /\ rolled = 0

DiceSeqs ==
    UNION {[1..n -> 1..MaxDie] : n \in 0..MaxDiceLen}

\* no move lands on cell 1, so the model declares its features on the
\* cells from 2 on
Starts == 2..size(columns, rows)

\* the cell lists of the `powerup` commands: one cell, or two in order
CellLists == {<<a>> : a \in Starts} \cup {p \in Starts \X Starts : p[1] < p[2]}

\* the boards the `board` commands of this model ask for
BoardDims == {<<1, 3>>, <<2, 3>>}

\* ladders, snakes and powerups are declared before the first roll
Setup == turn = 0

\* the board after the step has no more than MaxFeatures cells with a
\* ladder, snake or powerup
FewFeatures == Cardinality(Features(cells')) <= MaxFeatures

Next ==
    \/ \E d \in BoardDims : Board(d[1], d[2])
    \/ \E n \in 0..NPlayers : Players(n)
    \/ \E ds \in DiceSeqs : Dice(ds)
    \/ \E s \in Starts, k \in 1..MaxSpan :
          Setup /\ s + k <= size(columns, rows) /\ Ladder(s, s + k)
            /\ FewFeatures
    \/ \E s \in Starts, k \in 1..MaxSpan :
          Setup /\ s - k >= 1 /\ Snake(s, s - k) /\ FewFeatures
    \/ \E pt \in PowerType, ixs \in CellLists :
          Setup /\ PowerUps(pt, ixs) /\ FewFeatures
    \/ \E qty \in 0..MaxQty :
          turn + qty * Len(players) <= MaxTurn /\ Turns(qty)

Spec == Init /\ [][Next]_vars

\* inputs at the caps: boards of MAX_CELLS cells and of one more, MAX_PLAYERS
\* players and one more
CapDims ==
    {<<1, 3>>, <<MAX_CELLS, 1>>, <<MAX_CELLS + 1, 1>>,
     <<2, (MAX_CELLS + 1) \div 2>>}

CapPlayers == {0, 1, MAX_PLAYERS, MAX_PLAYERS + 1}

NextCaps ==
    \/ \E d \in CapDims : Board(d[1], d[2])
    \/ \E n \in CapPlayers : Players(n)
    \/ \E ds \in DiceSeqs : Dice(ds)

SpecCaps == Init /\ [][NextCaps]_vars

\* SAMPLE_INPUT: its setup lines, each given once, in any order (a ladder,
\* snake or powerup line read before the board line indexes an empty table),
\* then its `turns 10`
SampleDice == <<1, 2, 2, 2, 2>>

SampleCells ==
    [i \in 1..12 |->
        CASE i = 5 -> LadderStart(11)
          [] i = 8 -> SnakeStart(4)
          [] i \in {6, 9} -> PowerUp(Escalator)
          [] i = 7 -> PowerUp(Antivenom)
          [] i = 4 -> PowerUp(Double)
          [] i = 12 -> Winning
          [] OTHER -> Plain]

\* cell ix has not been declared yet
Undeclared(ix) == IF cells = <<>> THEN TRUE ELSE cells[ix] = Plain

NextSample ==
    \/ cells = <<>> /\ Board(3, 4)
    \/ players = <<>> /\ Players(2)
    \/ dice = <<>> /\ Dice(SampleDice)
    \/ Undeclared(5) /\ Ladder(5, 11)
    \/ Undeclared(8) /\ Snake(8, 4)
    \/ Undeclared(6) /\ PowerUps(Escalator, <<6, 9>>)
    \/ Undeclared(7) /\ PowerUps(Antivenom, <<7>>)
    \/ Undeclared(4) /\ PowerUps(Double, <<4>>)
    \/ /\ cells = SampleCells
       /\ Len(players) = 2
       /\ dice = SampleDice
       /\ turn = 0
       /\ Turns(10)

SpecSample == Init /\ [][NextSample]_vars

(* ---------------------------------------------------------------- *)
(* Properties                                                        *)
(* ---------------------------------------------------------------- *)
\* the player-turns of the last command that returned to apply
Returned == {i \in 1..Len(log) : log[i].fault = "none"}

\* winner() on the players ps and the current board
WinnerOf(ps) == winner(ps, columns, rows)

\* C1: a player-turn that starts with no winner returns true exactly when
\* winner() names a player right after it.
C1_ResultAgreesWithWinner ==
    \A i \in Returned :
        WinnerOf(log[i].before) = None =>
            (log[i].win <=> WinnerOf(log[i].after) # None)

\* C2 (as claimed): a `turns` command that follows a `turns` command which
\* reported a win resolves no player-turn and changes no player, not the
\* turn counter and not the winner.
WinReported ==
    cmd.type = "turns" /\ log # <<>> /\ log[Len(log)].win

C2_NoPlayAfterWin ==
    [][(WinReported /\ cmd'.type = "turns") =>
          /\ log' = <<>>
          /\ players' = players
          /\ turn' = turn
          /\ winner(players', columns', rows') = winner(players, columns, rows)]_vars

\* C3: the player-turns of one `turns` command go A, B, C, ... round after
\* round; none but the last reports a win; a command that returns has
\* either stopped on a win or resolved count * n player-turns.
C3_TurnOrder ==
    cmd.type = "turns" =>
        LET n == Len(players)
        IN  /\ \A i \in 1..Len(log) : log[i].who = (i - 1) % n
            /\ \A i \in 1..(Len(log) - 1) :
                   ~log[i].win /\ log[i].fault = "none"
            /\ Len(log) <= cmd.qty * n
            /\ fault = "none" =>
                   \/ Len(log) = cmd.qty * n /\ \A i \in 1..Len(log) : ~log[i].win
                   \/ log # <<>> /\ log[Len(log)].win

\* a command of two rounds stopped by a win in its second round, before the
\* last player's roll
C3_Witness ==
    /\ cmd.type = "turns" /\ cmd.qty = 2 /\ fault = "none"
    /\ Len(players) >= 2
    /\ Len(log) > Len(players) /\ Len(log) < 2 * Len(players)
    /\ log[Len(log)].win

\* C4: the k-th player-turn since the program began rolls dice[k mod length];
\* the turn counter is the number of player-turns begun, whatever commands
\* came in between and however many bumps the turns made.
C4_DiceCycle ==
    /\ turn = rolled
    /\ \A i \in 1..Len(log) :
           LET k == rolled - Len(log) + (i - 1)
           IN  /\ log[i].turn0 = k
               /\ log[i].die = dice[(k % Len(dice)) + 1]

\* a roll that has wrapped round the sequence, in a command that began after
\* earlier turns and in which a player was bumped
C4_Witness ==
    /\ fault = "none"
    /\ \E i \in 1..Len(log) :
           /\ log[i].turn0 >= Len(dice) /\ Len(dice) = 2
           /\ dice[1] # dice[2]
           /\ Len(log[i].steps) > 1
    /\ rolled > Len(log)

(* the claims about one landing are stated on the steps of the log *)
BoardSize == columns * rows

Acting(e) == e.before[e.who + 1]

\* the delta the claim expects of the roll of record e
Effective(e) == IF Acting(e).powerup = Double THEN 2 * e.die ELSE e.die

\* the landings, over all records of the log, that found a cell to land on
Landings ==
    UNION {{<<i, k>> : k \in {j \in 1..Len(log[i].steps) :
                                 log[i].steps[j].at <= BoardSize}} :
           i \in 1..Len(log)}

Step(l) == log[l[1]].steps[l[2]]

\* C5 (as claimed): a roll that would pass size() returns no win and changes
\* nothing but a held Double; a roll that reaches size() exactly is accepted
\* and wins.
C5_BoundaryRejection ==
    \A i \in Returned :
        LET e == log[i]
            p == Acting(e)
        IN  /\ p.loc + Effective(e) > BoardSize =>
                  /\ ~e.win
                  /\ e.steps = <<>>
                  /\ e.after = [e.before EXCEPT ![e.who + 1].powerup =
                                   IF @ = Double THEN NoPower ELSE @]
            /\ p.loc + Effective(e) = BoardSize =>
                  e.steps # <<>> /\ e.win

\* C6: a player holding Double moves by twice the roll and the Double is
\* gone before the boundary check, whether the move is accepted or not; any
\* other player moves by the roll and the roll consumes nothing.
C6_Double ==
    \A i \in 1..Len(log) :
        LET e == log[i]
            p == Acting(e)
            d == IF p.powerup = Double THEN 2 * e.die ELSE e.die
            held == IF p.powerup = Double THEN NoPower ELSE p.powerup
        IN  /\ e.delta = d
            /\ (e.steps = <<>>) <=> (p.loc + d > BoardSize)
            /\ e.steps = <<>> =>
                  e.after[e.who + 1] = [loc |-> p.loc, powerup |-> held]
            /\ e.steps # <<>> =>
                  /\ e.steps[1].who = e.who
                  /\ e.steps[1].at = p.loc + d
                  /\ e.steps[1].before = [loc |-> p.loc, powerup |-> held]
                  /\ (/\ p.powerup = Double
                      /\ e.steps[1].at <= BoardSize
                      /\ cells[e.steps[1].at].kind # "PowerUp"
                      /\ \A k \in 2..Len(e.steps) : e.steps[k].who # e.who)
                     => e.after[e.who + 1].powerup = NoPower

\* a Double spent on a rejected move and, in the same command, a Double
\* spent on an accepted one
C6_Witness ==
    /\ \E i \in Returned :
          Acting(log[i]).powerup = Double /\ log[i].steps = <<>>
    /\ \E i \in Returned :
          Acting(log[i]).powerup = Double /\ log[i].steps # <<>>

\* C7: whoever lands on a snake start holding Antivenom stays there and
\* holds nothing afterwards; whoever lands there without it goes to the
\* snake's end and keeps what it held.
C7_Antivenom ==
    \A l \in Landings :
        LET st == Step(l)
            cell == cells[st.at]
        IN  cell.kind = "SnakeStart" =>
              /\ ~st.win
              /\ st.after =
                   IF st.before.powerup = Antivenom
                   THEN [loc |-> st.at, powerup |-> NoPower]
                   ELSE [loc |-> cell.end, powerup |-> st.before.powerup]

\* a bumped player is saved by its Antivenom and, in the same command, a
\* player holding another powerup slides down a snake
C7_Witness ==
    /\ \E l \in Landings :
          /\ l[2] > 1
          /\ cells[Step(l).at].kind = "SnakeStart"
          /\ Step(l).before.powerup = Antivenom
    /\ \E l \in Landings :
          /\ cells[Step(l).at].kind = "SnakeStart"
          /\ Step(l).before.powerup # Antivenom

\* C8: landing on a ladder start s with end e holding Escalator costs the
\* Escalator and ends at s + 2(e - s), or at size() with a win when that is
\* at or above size(); without Escalator the player ends at e and keeps
\* what it held.
C8_Escalator ==
    \A l \in Landings :
        LET st == Step(l)
            cell == cells[st.at]
            far == st.at + 2 * (cell.end - st.at)
        IN  cell.kind = "LadderStart" =>
              IF st.before.powerup = Escalator
              THEN /\ st.after.powerup = NoPower
                   /\ st.after.loc = IF far < BoardSize THEN far ELSE BoardSize
                   /\ st.win <=> (far >= BoardSize)
              ELSE /\ st.after = [loc |-> cell.end,
                                  powerup |-> st.before.powerup]
                   /\ ~st.win

\* an Escalator climb that stays below size()
C8_Witness ==
    \E l \in Landings :
        /\ cells[Step(l).at].kind = "LadderStart"
        /\ Step(l).before.powerup = Escalator
        /\ Step(l).after.loc < BoardSize
        /\ ~Step(l).win

\* what the landing-cell rule makes of a landing st on a cell of the board
RuleApplied(st) ==
    LET cell == cells[st.at]
        b == st.before
        far == st.at + 2 * (cell.end - st.at)
    IN  CASE cell.kind = "Plain" ->
               st.after = [loc |-> st.at, powerup |-> b.powerup] /\ ~st.win
          [] cell.kind = "Winning" ->
               st.after = [loc |-> st.at, powerup |-> b.powerup] /\ st.win
          [] cell.kind = "PowerUp" ->
               st.after = [loc |-> st.at, powerup |-> cell.pt] /\ ~st.win
          [] cell.kind = "SnakeStart" ->
               /\ ~st.win
               /\ st.after = IF b.powerup = Antivenom
                             THEN [loc |-> st.at, powerup |-> NoPower]
                             ELSE [loc |-> cell.end, powerup |-> b.powerup]
          [] cell.kind = "LadderStart" ->
               IF b.powerup = Escalator
               THEN /\ st.after = [loc |-> IF far < BoardSize THEN far
                                             ELSE BoardSize,
                                   powerup |-> NoPower]
                    /\ st.win <=> (far >= BoardSize)
               ELSE /\ st.after = [loc |-> cell.end, powerup |-> b.powerup]
                    /\ ~st.win

\* the players other than ix on cell c among ps
Others(ps, ix, c) == {j \in 0..(Len(ps) - 1) : j # ix /\ ps[j + 1].loc = c}

\* C9: a landing that resolves without a win on a cell c where another
\* player Y stands leaves the mover on c and moves Y to c + 1, where the
\* landing-cell rule is applied to Y; the check is made again for the cell
\* Y ends on; the chain ends only on a win or a cell nobody else is on; the
\* command rolls once per player-turn, however many players were bumped.
C9_Bumping ==
    \A i \in 1..Len(log) :
        LET e == log[i]
            S == e.steps
        IN  /\ \A k \in 1..(Len(S) - 1) :
                  LET m == S[k]
                      y == S[k + 1]
                  IN  /\ ~m.win
                      /\ y.who \in Others(m.ps, m.who, m.after.loc)
                      /\ y.before = m.ps[y.who + 1]
                      /\ y.at = m.after.loc + 1
                      /\ y.ps = [m.ps EXCEPT ![y.who + 1] = y.after]
                      /\ y.ps[m.who + 1].loc = m.after.loc
            /\ \A k \in 2..Len(S) : S[k].at <= BoardSize => RuleApplied(S[k])
            /\ (e.fault = "none" /\ ~e.win /\ S # <<>>) =>
                  Others(e.after, S[Len(S)].who, S[Len(S)].after.loc) = {}
            /\ S # <<>> => e.after = S[Len(S)].ps
            /\ turn = log[1].turn0 + Len(log)

\* a chain of two bumps whose second bumped player lands on a cell with a
\* property
C9_Witness ==
    \E i \in Returned :
        /\ Len(log[i].steps) >= 3
        /\ cells[log[i].steps[3].at].kind \notin {"Plain", "Winning"}

\* C10 (as claimed): on a board without snakes every player-turn comes to
\* an end after at most n - 1 bumps, no player bumped twice, with a win or
\* with the last mover alone on its cell.
NoSnakes == \A c \in 1..Len(cells) : cells[c].kind # "SnakeStart"

C10_ChainTerminates ==
    NoSnakes =>
        \A i \in 1..Len(log) :
            LET e == log[i]
                S == e.steps
            IN  /\ e.fault = "none"
                /\ Len(S) - 1 <= Len(players) - 1
                /\ \A j, k \in 2..Len(S) : j # k => S[j].who # S[k].who
                /\ (~e.win /\ S # <<>>) =>
                      Others(e.after, S[Len(S)].who, S[Len(S)].after.loc) = {}

\* a landing that slides down a snake or climbs a ladder by the plain rule
Relocated(st) ==
    \/ cells[st.at].kind = "SnakeStart" /\ st.before.powerup # Antivenom
    \/ cells[st.at].kind = "LadderStart" /\ st.before.powerup # Escalator

C13_BoardShape ==
    /\ cells # <<>> =>
          /\ size(columns, rows) = columns * rows
          /\ Len(cells) = size(columns, rows)
          /\ cells[size(columns, rows)] = Winning
    /\ (cmd.type = "board" /\ fault = "none") =>
          \A i \in 1..(Len(cells) - 1) : cells[i] = Plain

\* C14: a `board` command with columns * rows above MAX_CELLS and a `players`
\* command with n above MAX_PLAYERS end the process and leave the game
\* state as it was; at or below the caps the command is accepted.
C14_Caps ==
    [][/\ cmd'.type = "board" =>
            IF cmd'.qty > MAX_CELLS
            THEN /\ fault' = "panic"
                 /\ <<columns, rows, cells, players, dice, turn>>' =
                      <<columns, rows, cells, players, dice, turn>>
            ELSE /\ fault' = "none"
                 /\ columns' * rows' = cmd'.qty
                 /\ Len(cells') = cmd'.qty
       /\ cmd'.type = "players" =>
            IF cmd'.qty > MAX_PLAYERS
            THEN /\ fault' = "panic"
                 /\ <<columns, rows, cells, players, dice, turn>>' =
                      <<columns, rows, cells, players, dice, turn>>
            ELSE /\ fault' = "none"
                 /\ Len(players') = cmd'.qty]_vars

\* a board of MAX_CELLS cells and MAX_PLAYERS players were accepted, and a
\* board of one more cell then ended the process
C14_Witness ==
    /\ cmd = [type |-> "board", qty |-> MAX_CELLS + 1]
    /\ fault = "panic"
    /\ Len(cells) = MAX_CELLS
    /\ Len(players) = MAX_PLAYERS

\* C15: the sample game (board 3 x 4, 2 players, dice 1 2 2 2 2, ladder
\* 5 -> 11, snake 8 -> 4, Escalator on 6 and 9, Antivenom on 7, Double on
\* 4), given `turns 10`, stops after exactly 6 player-turns with B on cell
\* 12 as the winner and A on cell 4 holding no powerup.
C15_SampleGame ==
    cmd = [type |-> "turns", qty |-> 10] =>
        /\ fault = "none"
        /\ Len(log) = 6
        /\ turn = 6
        /\ log[6].who = 1 /\ log[6].win
        /\ \A i \in 1..5 : ~log[i].win
        /\ players = <<[loc |-> 4, powerup |-> NoPower],
                       [loc |-> 12, powerup |-> NoPower]>>
        /\ winner(players, columns, rows) = "B"

\* the sample game was played on the sample board
C15_Witness ==
    /\ cmd.type = "turns"
    /\ log # <<>>
    /\ columns = 3 /\ rows = 4
    /\ cells = SampleCells
    /\ dice = SampleDice
    /\ Len(players) = 2

\* RESULTING_OUTPUT, line by line
RESULTING_OUTPUT ==
    <<"+---+---+---+",
      "| 12| 11| 10|",
      "|B  |   |   |",
      "+---+---+---+",
      "|  7|  8|  9|",
      "| a |  S| e |",
      "+---+---+---+",
      "|  6|  5|  4|",
      "| e |  L|Ad |",
      "+---+---+---+",
      "|  1|  2|  3|",
      "|   |   |   |",
      "+---+---+---+",
      "Player B won">>

\* the lines "Player X won"
WonLines == {"Player " \o Letters[i] \o " won" : i \in 1..Len(Letters)}

\* C16 (as claimed): when winner() names X the line "Player X won" comes
\* before every line of the grid; with no winner there is no such line.
WinnerLineFirst(out, w) ==
    IF w = None
    THEN \A i \in 1..Len(out) : out[i] \notin WonLines
    ELSE /\ out[1] = "Player " \o w \o " won"
         /\ \A i \in 2..Len(out) : out[i] \notin WonLines

C16_WinnerLineFirst ==
    WinnerLineFirst(print(players, cells, columns, rows),
                    winner(players, columns, rows))

\* C16 (amended): when winner() names X the line "Player X won" is the last
\* line, after the 3 * rows + 1 lines of the grid; with no winner the lines
\* are those of the grid alone.
WinnerLineLast(out, w) ==
    IF w = None
    THEN /\ Len(out) = 3 * rows + 1
         /\ \A i \in 1..Len(out) : out[i] \notin WonLines
    ELSE /\ Len(out) = 3 * rows + 2
         /\ out[Len(out)] = "Player " \o w \o " won"
         /\ \A i \in 1..(Len(out) - 1) : out[i] \notin WonLines

C16_WinnerLineLast ==
    WinnerLineLast(print(players, cells, columns, rows),
                   winner(players, columns, rows))

\* a board with a player other than A as the winner, after a `turns`
C16_Witness ==
    /\ cmd.type = "turns"
    /\ cells # <<>>
    /\ winner(players, columns, rows) \notin {None, "A"}

\* the sample game prints RESULTING_OUTPUT
SampleOutput ==
    cmd.type = "turns" => print(players, cells, columns, rows) = RESULTING_OUTPUT

\* no two of the players ps are on the same cell
Apart(ps) == \A i, j \in 1..Len(ps) : i # j => ps[i].loc # ps[j].loc

\* C17 (as claimed): after a `players` command and after every player-turn
\* that returned, no two players are on the same cell.
C17_OnePlayerPerCell ==
    /\ (cmd.type = "players" /\ fault = "none") => Apart(players)
    /\ \A i \in Returned : Apart(log[i].after)

\* the players whose landings make up the player-turn of record e
Movers(e) == {e.who} \cup {e.steps[k].who : k \in 1..Len(e.steps)}

\* C18: a board, dice, ladder, snake or powerup command leaves every
\* player's location and powerup and the turn counter as they were; a
\* `turns` command leaves the board, the dice and the number of players as
\* they were; within a player-turn only the acting player and the players
\* bumped in it change, and nothing changes between two player-turns.
C18_Frame ==
    [][/\ cmd'.type \in {"board", "dice", "ladder", "snake", "powerup"} =>
            players' = players /\ turn' = turn
       /\ cmd'.type = "turns" =>
            /\ columns' = columns
            /\ rows' = rows
            /\ cells' = cells
            /\ dice' = dice
            /\ Len(players') = Len(players)
            /\ log' # <<>> =>
                  /\ log'[1].before = players
                  /\ log'[Len(log')].after = players'
            /\ \A i \in 1..Len(log') :
                  /\ Len(log'[i].after) = Len(players)
                  /\ i > 1 => log'[i].before = log'[i - 1].after
                  /\ \A j \in 0..(Len(players) - 1) :
                        j \notin Movers(log'[i]) =>
                            log'[i].after[j + 1] = log'[i].before[j + 1]]_vars

\* a `board` command in a game under way, a player off cell 1 holding a
\* powerup
C18_Witness ==
    /\ cmd.type = "board"
    /\ fault = "none"
    /\ turn > 0
    /\ \E i \in 1..Len(players) :
          players[i].loc > 1 /\ players[i].powerup # NoPower

C20_OnBoard ==
    (/\ cmd.type = "turns"
     /\ cells # <<>>
     /\ log # <<>>
     /\ \A j \in 1..Len(players) : log[1].before[j].loc \in 1..BoardSize) =>
        /\ \A j \in 1..Len(players) : players[j].loc \in 1..BoardSize
        /\ \A i \in 1..Len(log) :
              \A k \in 1..Len(log[i].steps) :
                  /\ log[i].steps[k].at \in 1..BoardSize
                  /\ log[i].steps[k].after.loc \in 1..BoardSize
====
